---- MODULE Spec2Model ----
(***************************************************************************)
(* Model of the duplex realtime audio session of ConversationalView        *)
(* (src/App.tsx, lines 203-433): the React state and refs of the           *)
(* component, the handlers handleToggleConversation / cleanup / onopen /   *)
(* onmessage / onerror / onclose / onaudioprocess / 'ended', and the       *)
(* browser and transport objects they acquire and release.                 *)
(*                                                                         *)
(* Every click of the start button is a start request with its own index   *)
(* s in Sessions: the MediaStream, the two AudioContexts, the connect      *)
(* promise, the web socket and the ScriptProcessor that the request        *)
(* creates are all called s. A ref holds 0 for null or such an index.      *)
(* Every inbound message is a handler invocation with its own index m in   *)
(* Msgs; the AudioBufferSourceNode it creates is called m too.             *)
(*                                                                         *)
(* JavaScript runs each handler to its next await without interleaving,    *)
(* so an action is one such run. The state setters are modelled as         *)
(* assignments to the hook state.                                          *)
(***************************************************************************)
EXTENDS Integers, Sequences, FiniteSets, TLC

\* ------------------------------------------------------------ bounds
MaxSessions == 3      \* start requests (clicks on the start button)
MaxMsgs == 3          \* inbound messages handled by onmessage
MaxClock == 1         \* highest reading of the output AudioContext clock
MaxDur == 2           \* longest decoded chunk, in clock units
MaxText == 3          \* transcript characters received per session
MaxSends == 1         \* outbound frames counted per transport
MaxLate == 1          \* audioprocess events still queued when capture ends
LifecycleSessions == 2  \* start requests under Spec
LifecycleMsgs == 1      \* inbound messages under Spec
PlaybackSessions == 1   \* start requests under SpecPlayback
PlaybackLate == 0       \* queued capture events delivered under SpecPlayback

Sessions == 1..MaxSessions
Msgs == 1..MaxMsgs

\* ------------------------------------------------------------ state
VARIABLES
    mounted,                \* the component is mounted
    isConnecting,           \* useState, App.tsx:223
    isActive,               \* useState, App.tsx:224
    statusMessage,          \* useState, App.tsx:225
    transcripts,            \* useState, App.tsx:226
    error,                  \* useState, App.tsx:227
    sessionPromiseRef,      \* useRef, App.tsx:229 (0 = null)
    inputAudioContextRef,   \* useRef, App.tsx:230
    outputAudioContextRef,  \* useRef, App.tsx:231
    scriptProcessorRef,     \* useRef, App.tsx:232
    mediaStreamRef,         \* useRef, App.tsx:233
    audioSourcesRef,        \* useRef, App.tsx:234 (a set of sources)
    nextStartTimeRef,       \* useRef, App.tsx:235
    request,                \* position of each handleToggleConversation call
    stream,                 \* each MediaStream: state and track.stop() calls
    inputCtx,               \* each 16 kHz AudioContext: state and close() calls
    outputCtx,              \* each 24 kHz AudioContext: state and close() calls
    processor,              \* each ScriptProcessorNode
    transport,              \* each ai.live.connect(): promise and web socket
    onopenThrew,            \* sessions whose onopen raised a TypeError
    currentTime,            \* each output context's currentTime
    msgs,                   \* each onmessage invocation
    sources,                \* each AudioBufferSourceNode
    nMsgs,                  \* messages delivered so far
    lastEnd,                \* history: end of the chunk started last, 0 after a reset
    lastSource,             \* history: the source started last, 0 after a reset
    tornDown,               \* history: cleanup ran and no start request since
    stopped,                \* history: sessions a user stop has ended
    intrFresh,              \* history: interruption handled, no chunk since
    nIntr                   \* history: interrupted branches run since a teardown

vars == << mounted, isConnecting, isActive, statusMessage, transcripts, error,
           sessionPromiseRef, inputAudioContextRef, outputAudioContextRef,
           scriptProcessorRef, mediaStreamRef, audioSourcesRef, nextStartTimeRef,
           request, stream, inputCtx, outputCtx, processor, transport,
           onopenThrew, currentTime, msgs, sources, nMsgs, lastEnd, lastSource,
           tornDown, stopped, intrFresh, nIntr >>

reactVars == << isConnecting, isActive, statusMessage, transcripts, error >>
refVars == << sessionPromiseRef, inputAudioContextRef, outputAudioContextRef,
              scriptProcessorRef, mediaStreamRef, audioSourcesRef, nextStartTimeRef >>
deviceVars == << stream, inputCtx, outputCtx, processor, currentTime >>
playVars == << msgs, sources, nMsgs, lastEnd, lastSource, intrFresh, nIntr >>

Max(a, b) == IF a >= b THEN a ELSE b

\* ------------------------------------------------------------ values
NoStream == [state |-> "none", stops |-> 0]
NoCtx == [state |-> "none", closes |-> 0]
\* A ScriptProcessorNode: its state, the input context it was created on, the
\* disconnect() calls, and the audioprocess events that were queued for the
\* page when its capture ended and have not been delivered yet (late).
NoProcessor == [state |-> "none", ctx |-> 0, disconnects |-> 0, late |-> 0]
NoTransport == [promise |-> "none", socket |-> "none", thenClose |-> 0,
                closeCalls |-> 0, thenSend |-> 0, sends |-> 0]
NoMsg == [state |-> "none", ctx |-> 0, audio |-> 0, interrupted |-> FALSE,
          arrivedAt |-> 0, firstAfterIntr |-> FALSE, staleIntr |-> FALSE]
\* A source: its state, the context it was created on, the time given to
\* start(), the time its buffer begins to play (the time given to start(),
\* or the clock of its context at the call when that time has passed), its
\* buffer's duration, the stop() calls, whether an 'ended' event is on its
\* way (fires); and, as history, what
\* held when it was started: the source started before it with no reset of
\* the cursor in between (prev, 0 if none) and its end (prevEnd), the clock
\* its handler read (arrivedAt) and the clock then (now, -1 on a context
\* that is no longer the current one), whether its message
\* was the first chunk after an interruption (first) and whether an
\* interruption was handled while it was being decoded (stale).
NoSource == [state |-> "none", ctx |-> 0, at |-> 0, dur |-> 0, stops |-> 0,
             fires |-> FALSE, begin |-> 0,
             prev |-> 0, prevEnd |-> 0, arrivedAt |-> 0, now |-> 0,
             first |-> FALSE, stale |-> FALSE]

Init ==
    /\ mounted = TRUE
    /\ isConnecting = FALSE
    /\ isActive = FALSE
    /\ statusMessage = "Press the microphone to start"
    /\ transcripts = << >>
    /\ error = "null"
    /\ sessionPromiseRef = 0
    /\ inputAudioContextRef = 0
    /\ outputAudioContextRef = 0
    /\ scriptProcessorRef = 0
    /\ mediaStreamRef = 0
    /\ audioSourcesRef = {}
    /\ nextStartTimeRef = 0
    /\ request = [s \in Sessions |-> "unused"]
    /\ stream = [s \in Sessions |-> NoStream]
    /\ inputCtx = [s \in Sessions |-> NoCtx]
    /\ outputCtx = [s \in Sessions |-> NoCtx]
    /\ processor = [s \in Sessions |-> NoProcessor]
    /\ transport = [s \in Sessions |-> NoTransport]
    /\ onopenThrew = {}
    /\ currentTime = [s \in Sessions |-> 0]
    /\ msgs = [m \in Msgs |-> NoMsg]
    /\ sources = [m \in Msgs |-> NoSource]
    /\ nMsgs = 0
    /\ lastEnd = 0
    /\ lastSource = 0
    /\ tornDown = FALSE
    /\ stopped = {}
    /\ intrFresh = FALSE
    /\ nIntr = 0

\* ------------------------------------------------------------ cleanup
\* session.close() on the Session object of transport t (App.tsx:256).
closeSession(t) ==
    [t EXCEPT !.closeCalls = @ + 1,
              !.socket = IF @ = "open" THEN "closing" ELSE @]

\* promise.then(session => session.close()).catch(console.error), App.tsx:256:
\* runs at once on a resolved promise, waits on a pending one, and is skipped
\* (the rejection is logged) on a rejected one.
thenCloseSession(t) ==
    CASE t.promise = "resolved" -> closeSession(t)
      [] t.promise = "pending" -> [t EXCEPT !.thenClose = @ + 1]
      [] OTHER -> t

\* The buffer of source src has played to its end on its running context.
Played(src) ==
    /\ src.state = "started"
    /\ outputCtx[src.ctx].state = "running"
    /\ currentTime[src.ctx] >= src.begin + src.dur

\* source.stop() (App.tsx:252, 363), the output contexts being `ctxs` at the
\* call: a running context stops the source and delivers its 'ended' event;
\* a closed context renders nothing and delivers no event, but for the one of
\* a buffer that had played to its end before the close.
stop(src, ctxs) ==
    [src EXCEPT !.state = "stopped", !.stops = @ + 1,
                !.fires = @ \/ Played(src) \/ ctxs[src.ctx].state = "running"]

\* source.stop() on every source of the set `which`, App.tsx:252.
stopSources(which, ctxs) ==
    [m \in Msgs |-> IF m \in which THEN stop(sources[m], ctxs) ELSE sources[m]]

\* App.tsx:238-239.
cleanupState ==
    /\ isConnecting' = FALSE
    /\ isActive' = FALSE

\* mediaStreamRef: App.tsx:241-242.
cleanupStream ==
    /\ stream' = IF mediaStreamRef # 0
                 THEN [stream EXCEPT ![mediaStreamRef] =
                          [state |-> "stopped", stops |-> @.stops + 1]]
                 ELSE stream
    /\ mediaStreamRef' = 0

\* The audio thread queues audioprocess events of processor p for the page:
\* p is connected (App.tsx:313-314) and its context runs.
Capturing(p) ==
    /\ processor[p].state = "connected"
    /\ inputCtx[processor[p].ctx].state = "running"

\* scriptProcessorRef: App.tsx:244-245. The disconnect() (App.tsx:244) and the
\* close() of the input context (App.tsx:247) end the capture of a processor
\* and leave the events already queued for the page to be delivered.
cleanupProcessor ==
    /\ processor' = [p \in Sessions |->
          LET q == IF p = scriptProcessorRef
                   THEN [processor[p] EXCEPT !.state = "disconnected",
                                             !.disconnects = @ + 1]
                   ELSE processor[p]
          IN IF /\ Capturing(p)
                /\ p = scriptProcessorRef \/ processor[p].ctx = inputAudioContextRef
             THEN [q EXCEPT !.late = MaxLate]
             ELSE q]
    /\ scriptProcessorRef' = 0

\* The two contexts: App.tsx:247-250.
cleanupContexts ==
    /\ inputCtx' = IF inputAudioContextRef # 0
                   THEN [inputCtx EXCEPT ![inputAudioContextRef] =
                            [state |-> "closed", closes |-> @.closes + 1]]
                   ELSE inputCtx
    /\ outputCtx' = IF outputAudioContextRef # 0
                    THEN [outputCtx EXCEPT ![outputAudioContextRef] =
                             [state |-> "closed", closes |-> @.closes + 1]]
                    ELSE outputCtx
    /\ inputAudioContextRef' = 0
    /\ outputAudioContextRef' = 0
    /\ UNCHANGED currentTime

\* The in-flight sources and the cursor: App.tsx:252-254; the contexts of
\* the handles have been closed by then (App.tsx:247-248).
cleanupSources ==
    /\ sources' = stopSources(audioSourcesRef, outputCtx')
    /\ audioSourcesRef' = {}
    /\ nextStartTimeRef' = 0
    /\ lastEnd' = 0
    /\ lastSource' = 0

\* sessionPromiseRef: App.tsx:256-257. tr is the transports as the caller's
\* own event has left them.
cleanupSession(tr) ==
    /\ transport' = IF sessionPromiseRef # 0
                    THEN [tr EXCEPT ![sessionPromiseRef] = thenCloseSession(@)]
                    ELSE tr
    /\ sessionPromiseRef' = 0

\* cleanup(), App.tsx:237-258.
cleanup(tr) ==
    /\ cleanupState
    /\ cleanupStream
    /\ cleanupProcessor
    /\ cleanupContexts
    /\ cleanupSources
    /\ cleanupSession(tr)
    /\ tornDown' = TRUE
    /\ intrFresh' = FALSE
    /\ nIntr' = 0

\* ------------------------------------------------------------ lifecycle
NextRequest ==
    IF \E s \in Sessions : request[s] = "unused"
    THEN CHOOSE s \in Sessions :
            request[s] = "unused" /\ \A r \in 1..(s - 1) : request[r] # "unused"
    ELSE 0

\* The button is rendered with disabled={isConnecting}, App.tsx:413-415.
ButtonEnabled == mounted /\ ~isConnecting

\* handleToggleConversation with isActive true, App.tsx:260-265.
handleToggleConversation_stop ==
    /\ ButtonEnabled
    /\ isActive
    /\ cleanup(transport)
    /\ statusMessage' = "Session ended. Press the microphone to start again."
    /\ stopped' = stopped \cup {s \in Sessions : request[s] = "connected"}
    /\ UNCHANGED << mounted, transcripts, error, request, onopenThrew, msgs, nMsgs >>

\* handleToggleConversation with isActive false, up to the await of
\* getUserMedia, App.tsx:260-273.
handleToggleConversation_start ==
    /\ ButtonEnabled
    /\ ~isActive
    /\ NextRequest # 0
    /\ isConnecting' = TRUE
    /\ error' = "null"
    /\ transcripts' = << >>
    /\ statusMessage' = "Connecting to Gemini and requesting microphone..."
    /\ request' = [request EXCEPT ![NextRequest] = "getUserMedia"]
    /\ tornDown' = FALSE
    /\ UNCHANGED << mounted, isActive, refVars, deviceVars, transport,
                    onopenThrew, playVars, stopped >>

\* getUserMedia resolves: the rest of the try block, App.tsx:273-379.
getUserMedia_resolve(s) ==
    /\ request[s] = "getUserMedia"
    /\ request' = [request EXCEPT ![s] = "connected"]
    /\ stream' = [stream EXCEPT ![s] = [state |-> "live", stops |-> 0]]
    /\ mediaStreamRef' = s
    /\ inputCtx' = [inputCtx EXCEPT ![s] = [state |-> "running", closes |-> 0]]
    /\ outputCtx' = [outputCtx EXCEPT ![s] = [state |-> "running", closes |-> 0]]
    /\ inputAudioContextRef' = s
    /\ outputAudioContextRef' = s
    /\ currentTime' = [currentTime EXCEPT ![s] = 0]
    /\ transport' = [transport EXCEPT ![s] =
                        [@ EXCEPT !.promise = "pending", !.socket = "connecting"]]
    /\ sessionPromiseRef' = s
    /\ UNCHANGED << mounted, reactVars, scriptProcessorRef, audioSourcesRef,
                    nextStartTimeRef, processor, onopenThrew, playVars, tornDown, stopped >>

\* Mutant of getUserMedia_reject: the catch block without its cleanup().
getUserMedia_reject_noCleanup(s) ==
    /\ request[s] = "getUserMedia"
    /\ request' = [request EXCEPT ![s] = "failed"]
    /\ error' = "Could not start the microphone. Please check permissions and try again."
    /\ statusMessage' = "Error. Press microphone to retry."
    /\ UNCHANGED << mounted, isConnecting, isActive, transcripts, refVars,
                    deviceVars, transport, onopenThrew, playVars, tornDown, stopped >>

\* getUserMedia rejects: the catch block, App.tsx:381-386.
getUserMedia_reject(s) ==
    /\ request[s] = "getUserMedia"
    /\ request' = [request EXCEPT ![s] = "failed"]
    /\ error' = "Could not start the microphone. Please check permissions and try again."
    /\ cleanup(transport)
    /\ statusMessage' = "Error. Press microphone to retry."
    /\ UNCHANGED << mounted, transcripts, onopenThrew, msgs, nMsgs,
                    stopped >>

\* The effect's cleanup on unmount, App.tsx:389-392.
unmount ==
    /\ mounted
    /\ mounted' = FALSE
    /\ cleanup(transport)
    /\ UNCHANGED << statusMessage, transcripts, error, request, onopenThrew,
                    msgs, nMsgs,
                    stopped >>

\* ------------------------------------------------------------ transport
\* The connect promise of s resolves with the Session (the socket has
\* opened): the callbacks registered with then() run, App.tsx:256 and 309-311.
connect_resolve(s) ==
    /\ transport[s].promise = "pending"
    /\ transport[s].socket = "open"
    /\ transport' = [transport EXCEPT ![s] =
          [@ EXCEPT !.promise = "resolved",
                    !.sends = @ + transport[s].thenSend,
                    !.thenSend = 0,
                    !.closeCalls = @ + transport[s].thenClose,
                    !.thenClose = 0,
                    !.socket = IF transport[s].thenClose > 0 THEN "closing" ELSE @]]
    /\ UNCHANGED << mounted, reactVars, refVars, request, deviceVars,
                    onopenThrew, playVars, tornDown, stopped >>

\* The connect promise of s rejects: no socket, no callback. Nothing awaits
\* the promise (App.tsx:279); a then(close) waiting on it is skipped and its
\* catch(console.error) logs (App.tsx:256).
connect_reject(s) ==
    /\ transport[s].promise = "pending"
    /\ transport[s].socket = "connecting"
    /\ transport' = [transport EXCEPT ![s] =
          [@ EXCEPT !.promise = "rejected", !.socket = "closed",
                    !.thenClose = 0, !.thenSend = 0]]
    /\ UNCHANGED << mounted, reactVars, refVars, request, deviceVars,
                    onopenThrew, playVars, tornDown, stopped >>

\* callbacks.onopen, App.tsx:290-315. With inputAudioContextRef.current null
\* the non-null assertion of line 294 raises a TypeError after the three
\* setters have run.
onopen(s) ==
    /\ transport[s].socket = "connecting"
    /\ transport' = [transport EXCEPT ![s].socket = "open"]
    /\ isConnecting' = FALSE
    /\ isActive' = TRUE
    /\ statusMessage' = "Listening... Speak now."
    /\ IF inputAudioContextRef = 0
       THEN /\ onopenThrew' = onopenThrew \cup {s}
            /\ UNCHANGED << processor, scriptProcessorRef >>
       ELSE /\ processor' = [processor EXCEPT ![s] =
                   [state |-> "connected", ctx |-> inputAudioContextRef,
                    disconnects |-> 0, late |-> 0]]
            /\ scriptProcessorRef' = s
            /\ UNCHANGED onopenThrew
    /\ UNCHANGED << mounted, transcripts, error, sessionPromiseRef,
                    inputAudioContextRef, outputAudioContextRef, mediaStreamRef,
                    audioSourcesRef, nextStartTimeRef, request, stream, inputCtx,
                    outputCtx, currentTime, playVars, tornDown, stopped >>

\* An audioprocess event of processor p can be delivered to the handler:
\* p is capturing, or events queued before its disconnect() (App.tsx:244) or
\* the close() of its context (App.tsx:247) are still to be delivered.
CaptureFiring(p) == Capturing(p) \/ processor[p].late > 0

\* The handler can hand a frame over (App.tsx:309-311): the ref holds a
\* promise that is not rejected (frames are counted up to MaxSends).
CanSend ==
    /\ sessionPromiseRef # 0
    /\ transport[sessionPromiseRef].promise \in {"pending", "resolved"}
    /\ transport[sessionPromiseRef].sends + transport[sessionPromiseRef].thenSend
          < MaxSends

\* scriptProcessor.onaudioprocess, App.tsx:298-312: the frame is sent on the
\* session sessionPromiseRef holds now, whichever start request the processor
\* belongs to; with a null ref nothing happens, and a rejected promise never
\* runs the send. An event delivered after the capture ended is one of the
\* queued ones.
onaudioprocess(p) ==
    /\ CaptureFiring(p)
    /\ Capturing(p) => CanSend
    /\ transport' = IF CanSend
                    THEN [transport EXCEPT ![sessionPromiseRef] =
                            IF @.promise = "resolved"
                            THEN [@ EXCEPT !.sends = @ + 1]
                            ELSE [@ EXCEPT !.thenSend = @ + 1]]
                    ELSE transport
    /\ processor' = IF Capturing(p) THEN processor
                    ELSE [processor EXCEPT ![p].late = @ - 1]
    /\ UNCHANGED << mounted, reactVars, refVars, request, stream, inputCtx,
                    outputCtx, currentTime, onopenThrew, playVars, tornDown,
                    stopped >>

\* callbacks.onerror, App.tsx:368-373.
onerror(s) ==
    /\ transport[s].socket \in {"connecting", "open"}
    /\ error' = "An error occurred during the session. Please try again."
    /\ cleanup([transport EXCEPT ![s].socket = "errored"])
    /\ statusMessage' = "Error. Press microphone to retry."
    /\ UNCHANGED << mounted, transcripts, request, onopenThrew, msgs, nMsgs,
                    stopped >>

\* callbacks.onclose, App.tsx:374-377.
onclose(s) ==
    /\ transport[s].socket \in {"open", "closing", "errored"}
    /\ cleanup([transport EXCEPT ![s].socket = "closed"])
    /\ statusMessage' = "Session closed. Press microphone to start again."
    /\ UNCHANGED << mounted, transcripts, error, request, onopenThrew, msgs, nMsgs,
                    stopped >>

\* ------------------------------------------------------------ transcript
NoFragment == [present |-> FALSE, text |-> "", isFinal |-> FALSE]
Fragments == { [present |-> TRUE, text |-> x, isFinal |-> f] :
                  x \in {"a", "b"}, f \in BOOLEAN }

\* Mutant of append: the fragment is merged into a last entry that is not
\* final, whoever its speaker is.
append_ignoresSpeaker(prev, speaker, text, isFinal) ==
    IF /\ Len(prev) > 0
       /\ ~prev[Len(prev)].isFinal
    THEN [prev EXCEPT ![Len(prev)] =
             [@ EXCEPT !.text = @ \o text, !.isFinal = isFinal]]
    ELSE Append(prev, [speaker |-> speaker, text |-> text, isFinal |-> isFinal])

\* Mutant of append: the fragment is merged into the last entry of the same
\* speaker, final or not.
append_mergesIntoFinal(prev, speaker, text, isFinal) ==
    IF /\ Len(prev) > 0
       /\ prev[Len(prev)].speaker = speaker
    THEN [prev EXCEPT ![Len(prev)] =
             [@ EXCEPT !.text = @ \o text, !.isFinal = isFinal]]
    ELSE Append(prev, [speaker |-> speaker, text |-> text, isFinal |-> isFinal])

\* The updater passed to setTranscripts, App.tsx:319-327 and 331-339.
append(prev, speaker, text, isFinal) ==
    IF /\ Len(prev) > 0
       /\ prev[Len(prev)].speaker = speaker
       /\ ~prev[Len(prev)].isFinal
    THEN [prev EXCEPT ![Len(prev)] =
             [@ EXCEPT !.text = @ \o text, !.isFinal = isFinal]]
    ELSE Append(prev, [speaker |-> speaker, text |-> text, isFinal |-> isFinal])

\* The two transcription branches of onmessage, App.tsx:317-340.
transcribe(prev, inT, outT) ==
    LET afterInput == IF inT.present
                      THEN append(prev, "user", inT.text, inT.isFinal)
                      ELSE prev
    IN IF outT.present
       THEN append(afterInput, "model", outT.text, outT.isFinal)
       ELSE afterInput

RECURSIVE TextLen(_)
TextLen(tr) == IF tr = << >> THEN 0 ELSE Len(tr[1].text) + TextLen(Tail(tr))

\* ------------------------------------------------------------ playback
\* An audio payload is modelled by what decoding it yields: 0 is no payload
\* (base64Audio is falsy), -1 a payload that does not decode, d > 0 a payload
\* that decodes to a buffer of duration d.
Payloads == {-1} \cup (0..MaxDur)

\* decodeAudioData(decode(base64Audio), ...), imported from utils/audioUtils
\* (App.tsx:205, called at App.tsx:347).
decodeAudioData(payload) ==
    IF payload > 0 THEN [ok |-> TRUE, duration |-> payload]
    ELSE [ok |-> FALSE, duration |-> 0]

\* Mutant of clampToClock: the cursor is set to the clock.
clampToClock_takesClock(cursor, now) == now

\* Math.max(nextStartTimeRef.current, audioContext.currentTime), App.tsx:346.
clampToClock(cursor, now) == Max(cursor, now)

\* Mutant of advanceCursor: the cursor is left where the chunk starts.
advanceCursor_keepsCursor(cursor, duration) == cursor

\* nextStartTimeRef.current += audioBuffer.duration, App.tsx:358.
advanceCursor(cursor, duration) == cursor + duration

\* A handler that has returned keeps only how it ended.
Finished(how) == [NoMsg EXCEPT !.state = how]

\* A handler still awaiting its decode when an interruption is handled.
Overtaken(msg) ==
    IF msg.state = "decoding" THEN [msg EXCEPT !.staleIntr = TRUE] ELSE msg

\* The interrupted branch of onmessage, App.tsx:362-366, applied to the
\* in-flight set `inflight` and the sources `src`.
interruptedSources(src, inflight) ==
    [m \in Msgs |-> IF m \in inflight THEN stop(src[m], outputCtx) ELSE src[m]]

\* callbacks.onmessage up to its await, App.tsx:316-347; a message without a
\* payload, or one that finds outputAudioContextRef null, runs to the end
\* (App.tsx:362-366).
onmessage(s, inT, outT, audio, interrupted) ==
    LET m == nMsgs + 1
        chunk == audio # 0 /\ outputAudioContextRef # 0
    IN
    /\ transport[s].socket \in {"open", "closing"}
    /\ nMsgs < MaxMsgs
    /\ TextLen(transcripts) + Len(inT.text) + Len(outT.text) <= MaxText
    /\ nMsgs' = m
    /\ transcripts' = transcribe(transcripts, inT, outT)
    /\ IF chunk
       THEN /\ statusMessage' = "AI is speaking..."
            /\ nextStartTimeRef' = clampToClock(nextStartTimeRef,
                                      currentTime[outputAudioContextRef])
            /\ msgs' = [msgs EXCEPT ![m] =
                  [state |-> "decoding", ctx |-> outputAudioContextRef,
                   audio |-> audio, interrupted |-> interrupted,
                   arrivedAt |-> currentTime[outputAudioContextRef],
                   firstAfterIntr |-> intrFresh,
                   staleIntr |-> FALSE]]
            /\ intrFresh' = FALSE
            /\ UNCHANGED << sources, audioSourcesRef, lastEnd, lastSource, nIntr >>
       ELSE /\ msgs' = [m2 \in Msgs |->
                  IF m2 = m THEN Finished("handled")
                  ELSE IF interrupted THEN Overtaken(msgs[m2]) ELSE msgs[m2]]
            /\ UNCHANGED statusMessage
            /\ IF interrupted
               THEN /\ sources' = interruptedSources(sources, audioSourcesRef)
                    /\ audioSourcesRef' = {}
                    /\ nextStartTimeRef' = 0
                    /\ lastEnd' = 0
                    /\ lastSource' = 0
                    /\ intrFresh' = TRUE
                    /\ nIntr' = nIntr + 1
               ELSE UNCHANGED << sources, audioSourcesRef, nextStartTimeRef,
                                 lastEnd, lastSource, intrFresh, nIntr >>
    /\ UNCHANGED << mounted, isConnecting, isActive, error, sessionPromiseRef,
                    inputAudioContextRef, outputAudioContextRef,
                    scriptProcessorRef, mediaStreamRef, request, deviceVars,
                    transport, onopenThrew, tornDown, stopped >>

\* The await of decodeAudioData resolves: the rest of onmessage,
\* App.tsx:348-366, on the context the handler read before the await.
decode_resolve(m) ==
    LET at == nextStartTimeRef
        dur == decodeAudioData(msgs[m].audio).duration
        started == [sources EXCEPT ![m] =
                       [state |-> "started", ctx |-> msgs[m].ctx, at |-> at,
                        dur |-> dur, stops |-> 0, fires |-> FALSE,
                        begin |-> Max(at, currentTime[msgs[m].ctx]),
                        prev |-> lastSource,
                        prevEnd |-> lastEnd,
                        arrivedAt |-> msgs[m].arrivedAt,
                        now |-> IF msgs[m].ctx = outputAudioContextRef
                                THEN currentTime[msgs[m].ctx] ELSE -1,
                        first |-> msgs[m].firstAfterIntr,
                        stale |-> msgs[m].staleIntr]]
    IN
    /\ msgs[m].state = "decoding"
    /\ decodeAudioData(msgs[m].audio).ok
    /\ IF msgs[m].interrupted
       THEN /\ sources' = interruptedSources(started, audioSourcesRef \cup {m})
            /\ audioSourcesRef' = {}
            /\ nextStartTimeRef' = 0
            /\ lastEnd' = 0
            /\ lastSource' = 0
            /\ intrFresh' = TRUE
            /\ nIntr' = nIntr + 1
       ELSE /\ sources' = started
            /\ audioSourcesRef' = audioSourcesRef \cup {m}
            /\ nextStartTimeRef' = advanceCursor(at, dur)
            /\ lastEnd' = at + dur
            /\ lastSource' = m
            /\ UNCHANGED << intrFresh, nIntr >>
    /\ msgs' = [m2 \in Msgs |->
          IF m2 = m THEN Finished("scheduled")
          ELSE IF msgs[m].interrupted THEN Overtaken(msgs[m2]) ELSE msgs[m2]]
    /\ UNCHANGED << mounted, reactVars, sessionPromiseRef, inputAudioContextRef,
                    outputAudioContextRef, scriptProcessorRef, mediaStreamRef,
                    request, deviceVars, transport, onopenThrew, nMsgs, tornDown, stopped >>

\* The await of decodeAudioData rejects: the handler ends there, App.tsx:347.
decode_reject(m) ==
    /\ msgs[m].state = "decoding"
    /\ ~decodeAudioData(msgs[m].audio).ok
    /\ msgs' = [msgs EXCEPT ![m] = Finished("failed")]
    /\ UNCHANGED << mounted, reactVars, refVars, request, deviceVars, transport,
                    onopenThrew, sources, nMsgs, lastEnd, lastSource, intrFresh,
                    nIntr, tornDown, stopped >>

\* The 'ended' listener of source m, App.tsx:351-356: the event comes when
\* the buffer has played to its end on its own running context, whether a
\* handle still holds that context or not, or after a stop() that a running
\* context has carried out.
ended(m) ==
    /\ sources[m].fires \/ Played(sources[m])
    /\ sources' = [sources EXCEPT ![m] = [NoSource EXCEPT !.state = "ended"]]
    /\ audioSourcesRef' = audioSourcesRef \ {m}
    /\ statusMessage' = IF audioSourcesRef \ {m} = {} THEN "Listening..."
                        ELSE statusMessage
    /\ UNCHANGED << mounted, isConnecting, isActive, transcripts, error,
                    sessionPromiseRef, inputAudioContextRef, outputAudioContextRef,
                    scriptProcessorRef, mediaStreamRef, nextStartTimeRef, request,
                    deviceVars, transport, onopenThrew, msgs, nMsgs, lastEnd,
                    lastSource, intrFresh, nIntr, tornDown, stopped >>

\* An output context whose clock can advance.
Ticking(c) == outputCtx[c].state = "running" /\ currentTime[c] < MaxClock

\* Time passes: the clock of every running output context advances.
tick ==
    /\ \E c \in Sessions : Ticking(c)
    /\ currentTime' = [c \in Sessions |->
          IF Ticking(c) THEN currentTime[c] + 1 ELSE currentTime[c]]
    /\ UNCHANGED << mounted, reactVars, refVars, request, stream, inputCtx,
                    outputCtx, processor, transport, onopenThrew, playVars,
                    tornDown, stopped >>

\* ------------------------------------------------------------ specification
\* The steps of the session: the clicks, the unmount, getUserMedia, the
\* transport's promise and callbacks, the capture callback. At most
\* `sessions` start requests are made, and at most `lates` of the events a
\* processor had queued when its capture ended are delivered.
LifecycleStep(sessions, lates) ==
    \/ /\ NextRequest <= sessions
       /\ handleToggleConversation_start
    \/ handleToggleConversation_stop
    \/ unmount
    \/ \E s \in Sessions : getUserMedia_resolve(s)
    \/ \E s \in Sessions : getUserMedia_reject(s)
    \/ \E s \in Sessions : connect_resolve(s)
    \/ \E s \in Sessions : connect_reject(s)
    \/ \E s \in Sessions : onopen(s)
    \/ \E s \in Sessions : onerror(s)
    \/ \E s \in Sessions : onclose(s)
    \/ \E p \in Sessions :
          /\ Capturing(p) \/ processor[p].late > MaxLate - lates
          /\ onaudioprocess(p)

\* The inbound messages: at most `limit` of them, with transcription
\* fragments from `frags` and audio payloads from `payloads`.
InboundStep(limit, frags, payloads) ==
    \E s \in Sessions, inT \in frags, outT \in frags, audio \in payloads,
       interrupted \in BOOLEAN :
        /\ nMsgs < limit
        /\ onmessage(s, inT, outT, audio, interrupted)

\* The decodes, the 'ended' events and the output clock, up to `clock`.
PlaybackStep(clock) ==
    \/ \E m \in Msgs : decode_resolve(m)
    \/ \E m \in Msgs : decode_reject(m)
    \/ \E m \in Msgs : ended(m)
    \/ /\ \E c \in Sessions : Ticking(c) /\ currentTime[c] < clock
       /\ tick

\* The session with its playback: two start requests, the inbound messages,
\* the decodes, the 'ended' events and the output clocks.
Next ==
    \/ LifecycleStep(LifecycleSessions, MaxLate)
    \/ InboundStep(LifecycleMsgs, {NoFragment}, Payloads \cap (-1..1))
    \/ PlaybackStep(MaxClock)

Spec == Init /\ [][Next]_vars

\* The playback of one session at length: more messages and longer chunks;
\* of the capture events queued when a capture ends, PlaybackLate are
\* delivered.
NextPlayback ==
    \/ LifecycleStep(PlaybackSessions, PlaybackLate)
    \/ InboundStep(MaxMsgs, {NoFragment}, Payloads)
    \/ PlaybackStep(MaxClock)

SpecPlayback == Init /\ [][NextPlayback]_vars

\* Start requests that overlap: every start request, no inbound message.
NextOverlap == LifecycleStep(MaxSessions, MaxLate)

SpecOverlap == Init /\ [][NextOverlap]_vars

\* The session alone, with what the browser and the transport guarantee: a
\* getUserMedia request settles, a connection attempt settles (it opens, it
\* errors or the connect promise rejects), the connect promise of an open
\* socket resolves, and a socket that errored or was closed delivers its
\* close event. Nothing obliges the user to click or the remote side to close.
NextFair == LifecycleStep(LifecycleSessions, MaxLate)

Fairness ==
    /\ WF_vars(\E s \in Sessions : getUserMedia_resolve(s) \/ getUserMedia_reject(s))
    /\ WF_vars(\E s \in Sessions :
                  /\ transport[s].socket = "connecting"
                  /\ (onopen(s) \/ onerror(s) \/ connect_reject(s)))
    /\ WF_vars(\E s \in Sessions : connect_resolve(s))
    /\ WF_vars(\E s \in Sessions :
                  /\ transport[s].socket \in {"closing", "errored"}
                  /\ onclose(s))

FairSpec == Init /\ [][NextFair]_vars /\ Fairness

\* The transcript of one session: messages that carry transcription
\* fragments of either speaker, final or not, and no audio.
NextTranscript ==
    \/ LifecycleStep(PlaybackSessions, MaxLate)
    \/ InboundStep(MaxMsgs, Fragments \cup {NoFragment}, {0})

SpecTranscript == Init /\ [][NextTranscript]_vars

\* ------------------------------------------------------------ vocabulary
Idle == ~isConnecting /\ ~isActive

HandlesNull ==
    /\ mediaStreamRef = 0
    /\ scriptProcessorRef = 0
    /\ inputAudioContextRef = 0
    /\ outputAudioContextRef = 0
    /\ sessionPromiseRef = 0

Scheduled(m) == sources[m].state \in {"started", "stopped"}

\* A source that is giving sound: started, not stopped, on a running context.
Audible(m) ==
    /\ sources[m].state = "started"
    /\ outputCtx[sources[m].ctx].state = "running"

\* A step that calls cleanup().
CleanupCall ==
    \/ handleToggleConversation_stop
    \/ unmount
    \/ \E s \in Sessions : getUserMedia_reject(s)
    \/ \E s \in Sessions : onerror(s)
    \/ \E s \in Sessions : onclose(s)

\* What a step has released of what the refs held before it: every track
\* stopped, the processor disconnected, both contexts closed, every in-flight
\* source stopped, each by exactly one call, the session's close() called or
\* left to run when the connect promise resolves; and the handles are null and
\* the in-flight set empty afterwards.
ReleasedByStep ==
    /\ mediaStreamRef # 0 =>
          stream'[mediaStreamRef] = [state |-> "stopped", stops |-> 1]
    /\ scriptProcessorRef # 0 =>
          /\ processor'[scriptProcessorRef].state = "disconnected"
          /\ processor'[scriptProcessorRef].disconnects = 1
    /\ inputAudioContextRef # 0 =>
          inputCtx'[inputAudioContextRef] = [state |-> "closed", closes |-> 1]
    /\ outputAudioContextRef # 0 =>
          outputCtx'[outputAudioContextRef] = [state |-> "closed", closes |-> 1]
    /\ \A m \in audioSourcesRef :
          sources'[m].state = "stopped" /\ sources'[m].stops = 1
    /\ (sessionPromiseRef # 0 /\ transport[sessionPromiseRef].promise # "rejected") =>
          transport'[sessionPromiseRef].closeCalls
             + transport'[sessionPromiseRef].thenClose = 1
    /\ HandlesNull'
    /\ audioSourcesRef' = {}
    /\ nextStartTimeRef' = 0

\* Nothing is held by any start request: no stream is live, no processor
\* connected, no context running, no source started, and every transport
\* that is connecting or open has been asked to close.
NothingHeld ==
    /\ \A s \in Sessions :
          /\ stream[s].state # "live"
          /\ processor[s].state # "connected"
          /\ inputCtx[s].state # "running"
          /\ outputCtx[s].state # "running"
          /\ transport[s].socket \in {"connecting", "open"} =>
                transport[s].closeCalls + transport[s].thenClose >= 1
    /\ \A m \in Msgs : sources[m].state # "started"

\* A step that runs the interrupted branch of onmessage (App.tsx:362-366):
\* at once for a message without a chunk, after the decode for one with a
\* chunk.
InterruptStep == nIntr' = nIntr + 1

\* ------------------------------------------------------------ claims

\* C1: between two resets of the cursor (an interruption, a teardown) every
\* source is given a start time that is at least the start time plus the
\* duration of the source started before it, whatever the arrival times and
\* the order in which the decodes complete: the start times never decrease
\* and no two scheduled chunks overlap.
NoOverlapScheduled ==
    \A m \in Msgs : Scheduled(m) =>
        /\ sources[m].at >= sources[m].prevEnd
        /\ sources[m].prev # 0 => sources[m].prevEnd > 0

\* Three chunks are on the timeline one behind the other, the last one
\* starting exactly where the one before it ends.
ThreeChunksBackToBack ==
    \E a, b \in Msgs :
        /\ sources[b].state = "started"
        /\ sources[b].prev = a
        /\ sources[a].state = "started"
        /\ sources[a].prev # 0
        /\ sources[b].at = sources[a].at + sources[a].dur

\* C2 (state part): no track, processor, context, source or session is
\* released by more than one call, and every source of the in-flight set has
\* been started, so that stop() on it cannot raise.
ReleasedAtMostOnce ==
    /\ \A s \in Sessions :
          /\ stream[s].stops <= 1
          /\ processor[s].disconnects <= 1
          /\ inputCtx[s].closes <= 1
          /\ outputCtx[s].closes <= 1
          /\ transport[s].closeCalls + transport[s].thenClose <= 1
    /\ \A m \in Msgs : sources[m].stops <= 1
    /\ \A m \in audioSourcesRef : sources[m].state = "started"

\* A call of cleanup() that finds every handle null and the in-flight set
\* empty, as a previous call leaves them, releases nothing.
SecondCallReleasesNothing ==
    (HandlesNull /\ audioSourcesRef = {}) =>
        /\ UNCHANGED << stream, processor, inputCtx, outputCtx, sources >>
        /\ \A s \in Sessions :
              /\ transport'[s].closeCalls = transport[s].closeCalls
              /\ transport'[s].thenClose = transport[s].thenClose

\* C2: teardown is idempotent and total. Every call of cleanup(), from any
\* state, releases every resource exactly once: what the handles hold is
\* released by the call and the handles are null after it, nothing of any
\* start request is left held, a call that follows another one releases
\* nothing, and no resource is ever released twice, also when a user stop, an
\* onerror and an onclose call cleanup() one after the other.
TeardownIdempotent ==
    /\ []ReleasedAtMostOnce
    /\ [][CleanupCall =>
            (ReleasedByStep /\ SecondCallReleasesNothing /\ NothingHeld')]_vars

\* C3: at no time do two start requests hold a live microphone stream, a
\* running output context, or a transport that is connecting or open and has
\* not been asked to close.
OneSessionAtATime ==
    /\ Cardinality({s \in Sessions : stream[s].state = "live"}) <= 1
    /\ Cardinality({s \in Sessions : outputCtx[s].state = "running"}) <= 1
    /\ Cardinality({s \in Sessions :
          /\ transport[s].socket \in {"connecting", "open"}
          /\ transport[s].closeCalls + transport[s].thenClose = 0}) <= 1

\* C4: from a teardown until the next start request the in-flight set is
\* empty, no source is audible and no capture callback fires (stated for the
\* mounted component).
SilentAfterTeardown ==
    (mounted /\ tornDown) =>
        /\ audioSourcesRef = {}
        /\ \A m \in Msgs : ~Audible(m)
        /\ \A p \in Sessions : ~CaptureFiring(p)

\* C5: in the Idle state every handle is null and nothing is held: no live
\* stream, no running context, no connected processor (stated for the
\* mounted component).
IdleHoldsNothing ==
    (mounted /\ Idle) =>
        /\ HandlesNull
        /\ \A s \in Sessions :
              /\ stream[s].state # "live"
              /\ inputCtx[s].state # "running"
              /\ outputCtx[s].state # "running"
              /\ processor[s].state # "connected"

\* C6: a user stop while Active, a transport close, a transport error and a
\* failed microphone acquisition each leave the session Idle with the full
\* teardown done: capture stopped (no stream live, no processor connected,
\* no context running), every in-flight source stopped and the set cleared,
\* every transport asked to close, every handle null.
StopCloseErrorTearDown ==
    [][(\/ handleToggleConversation_stop
        \/ \E s \in Sessions : onclose(s)
        \/ \E s \in Sessions : onerror(s)
        \/ \E s \in Sessions : getUserMedia_reject(s))
         => (Idle' /\ ReleasedByStep /\ NothingHeld')]_vars

\* C7 (state part): a start request whose getUserMedia failed never has a
\* stream, a context, a processor, a connect promise or a socket, and no
\* frame is sent on a transport of its own.
FailedRequestOpensNothing ==
    \A s \in Sessions : request[s] = "failed" =>
        /\ transport[s] = NoTransport
        /\ stream[s] = NoStream
        /\ inputCtx[s] = NoCtx
        /\ outputCtx[s] = NoCtx
        /\ processor[s] = NoProcessor

\* C7: when getUserMedia fails the transport is never opened and no frame is
\* sent for that start request, the catch block performs the full teardown
\* (whatever the handles hold at that moment is released by exactly one
\* call, every in-flight source is stopped, the handles are null and the set
\* is empty) and the session is Idle after it.
MicFailureAborts ==
    /\ []FailedRequestOpensNothing
    /\ [][\A s \in Sessions :
            (request[s] = "getUserMedia" /\ request'[s] = "failed")
               => (Idle' /\ ReleasedByStep /\ transport'[s] = NoTransport)]_vars

\* The second start request failed at getUserMedia while the handles held
\* the stream, the capturing processor, the contexts and the open transport
\* of the third one: no user stop, unmount or callback of the third transport
\* has run, so the catch block released them; the session is Idle, every
\* handle is null, the error is shown and the failed request has no
\* transport.
MicFailureAfterSession ==
    /\ mounted
    /\ stopped = {}
    /\ request[2] = "failed"
    /\ request[3] = "connected"
    /\ error = "Could not start the microphone. Please check permissions and try again."
    /\ statusMessage = "Error. Press microphone to retry."
    /\ stream[3] = [state |-> "stopped", stops |-> 1]
    /\ processor[3].state = "disconnected"
    /\ processor[3].ctx = 3
    /\ processor[3].disconnects = 1
    /\ inputCtx[3] = [state |-> "closed", closes |-> 1]
    /\ outputCtx[3] = [state |-> "closed", closes |-> 1]
    /\ transport[3].socket = "open"
    /\ transport[3].closeCalls + transport[3].thenClose = 1
    /\ transport[2] = NoTransport
    /\ Idle
    /\ HandlesNull

\* C8: a session that is Connecting leaves that state, whatever the failure.
ConnectingEnds == isConnecting ~> ~isConnecting

\* C9: the first chunk handled after an interruption is started at the
\* current time of the output clock: no earlier than the reading its handler
\* took, no later than the clock when start() is called (stated for the
\* mounted component).
StartsNowAfterInterrupt ==
    \A m \in Msgs :
        (mounted /\ Scheduled(m) /\ sources[m].first /\ sources[m].now >= 0) =>
            /\ sources[m].at >= sources[m].arrivedAt
            /\ sources[m].at <= sources[m].now

\* C10: after a chunk failed to decode, every later chunk that is scheduled
\* is scheduled in arrival order (the source started before it belongs to an
\* earlier message) and without overlap, and the session is still Active
\* with its cursor and in-flight set intact (stated for the mounted
\* component).
DecodeFailureHarmless ==
    \A f, m \in Msgs :
        (mounted /\ msgs[f].state = "failed" /\ m > f /\ Scheduled(m)) =>
            /\ sources[m].prev < m
            /\ sources[m].at >= sources[m].prevEnd

\* The append rule as the specification words it: `next` is `prev` with the
\* fragment of `speaker` merged into a last entry of the same speaker that is
\* not final (text concatenated behind its text, isFinal overwritten, length
\* unchanged), and otherwise `prev` with exactly one new entry at its end.
AppendRule(prev, next, speaker, frag) ==
    IF /\ Len(prev) > 0
       /\ prev[Len(prev)].speaker = speaker
       /\ ~prev[Len(prev)].isFinal
    THEN /\ Len(next) = Len(prev)
         /\ \A i \in 1..(Len(prev) - 1) : next[i] = prev[i]
         /\ next[Len(prev)] = [speaker |-> speaker,
                               text |-> prev[Len(prev)].text \o frag.text,
                               isFinal |-> frag.isFinal]
    ELSE /\ Len(next) = Len(prev) + 1
         /\ \A i \in 1..Len(prev) : next[i] = prev[i]
         /\ next[Len(next)] = [speaker |-> speaker, text |-> frag.text,
                               isFinal |-> frag.isFinal]

\* A sequence without its last entry.
Front(seq) == SubSeq(seq, 1, Len(seq) - 1)

\* C11: every message handled changes the transcript by the append rule,
\* for its input transcription as the user's fragment and then for its
\* output transcription as the model's fragment: a fragment is merged into
\* the last entry only if that entry has the same speaker and is not final,
\* and is a new entry at the end otherwise; a message without a
\* transcription leaves the transcript as it is.
TranscriptAppendRule ==
    [][\A s \in Sessions, inT \in Fragments \cup {NoFragment},
          outT \in Fragments \cup {NoFragment}, i \in BOOLEAN :
          onmessage(s, inT, outT, 0, i) =>
             CASE ~inT.present /\ ~outT.present -> transcripts' = transcripts
               [] inT.present /\ ~outT.present ->
                     AppendRule(transcripts, transcripts', "user", inT)
               [] ~inT.present /\ outT.present ->
                     AppendRule(transcripts, transcripts', "model", outT)
               [] OTHER ->
                     /\ Len(transcripts') >= 1
                     /\ AppendRule(transcripts, Front(transcripts'), "user", inT)
                     /\ AppendRule(Front(transcripts'), transcripts', "model", outT)
      ]_vars

\* Two fragments of the user that were not final are one entry "ab", and a
\* fragment of the model after them is a second entry.
MergedThenOtherSpeaker ==
    /\ Len(transcripts) = 2
    /\ transcripts[1] = [speaker |-> "user", text |-> "ab", isFinal |-> FALSE]
    /\ transcripts[2].speaker = "model"

\* C17: but for the start of a session, which empties the transcript, no
\* step shortens the transcript, changes an entry other than the last one,
\* or changes an entry that is final; a fragment that follows a final entry
\* of its speaker is therefore a new entry.
TranscriptAppendOnly ==
    [][handleToggleConversation_start \/
       (/\ Len(transcripts') >= Len(transcripts)
        /\ \A i \in 1..Len(transcripts) :
              (i < Len(transcripts) \/ transcripts[i].isFinal) =>
                 transcripts'[i] = transcripts[i])]_vars

\* A final entry of a speaker is followed by an entry of the same speaker
\* that two fragments have built.
FinalEntryFollowedBySameSpeaker ==
    /\ Len(transcripts) = 2
    /\ transcripts[1].isFinal
    /\ transcripts[1].speaker = transcripts[2].speaker
    /\ Len(transcripts[2].text) = 2

\* C12 as stated: the cursor never decreases from one step to the next
\* except when an interruption resets it to zero.
CursorDecreasesOnlyByInterrupt ==
    [][nextStartTimeRef' < nextStartTimeRef =>
          (InterruptStep /\ nextStartTimeRef' = 0)]_vars

\* C12 as amended: the cursor never decreases from one step to the next
\* except when an interruption or a teardown (a call of cleanup) resets it
\* to zero.
CursorDecreasesOnlyByReset ==
    [][nextStartTimeRef' < nextStartTimeRef =>
          ((InterruptStep \/ CleanupCall) /\ nextStartTimeRef' = 0)]_vars

\* A user stop has reset the cursor that a chunk had advanced: the chunk's
\* source was stopped by the teardown and the cursor is zero.
CursorResetByStop ==
    /\ statusMessage = "Session ended. Press the microphone to start again."
    /\ tornDown
    /\ nextStartTimeRef = 0
    /\ \E m \in Msgs : sources[m].state = "stopped" /\ sources[m].dur > 0

\* The sends initiated on the transport of s: frames handed to
\* sendRealtimeInput and frames waiting for the connect promise.
Initiated(tr, s) == tr[s].sends + tr[s].thenSend

\* C13: once a user stop has been handled, no step initiates a send on a
\* session that existed at the stop, and a capture callback of a processor
\* of such a session that fires afterwards starts no send at all; a send
\* that was waiting for the connect promise at the stop may still be handed
\* over, which initiates nothing.
NoSendAfterStop ==
    [][/\ \A s \in stopped : Initiated(transport', s) <= Initiated(transport, s)
       /\ \A p \in stopped :
             onaudioprocess(p) =>
                \A s \in Sessions :
                   Initiated(transport', s) = Initiated(transport, s)]_vars

\* A step in which the handler of a message that carries the interrupted
\* flag comes to its end: it runs the interrupted branch, or its decode
\* fails.
InterruptedHandlerEnds ==
    \/ InterruptStep
    \/ \E m \in Msgs : msgs[m].interrupted /\ decode_reject(m)

\* C14: when the handler of a message that carries the interrupted flag
\* ends in an Active session, with or without a chunk and also when the
\* chunk fails to decode, every in-flight source has been stopped, the
\* in-flight set is empty, the cursor is zero and the session is still Active.
InterruptAlwaysApplied ==
    [][(mounted /\ isActive /\ InterruptedHandlerEnds) =>
          /\ \A m \in audioSourcesRef : sources'[m].state = "stopped"
          /\ audioSourcesRef' = {}
          /\ nextStartTimeRef' = 0
          /\ isActive']_vars

\* C15: the start time given to a source is the maximum of the cursor and
\* the output clock at the moment start() is called, so it is never earlier
\* than the clock at that moment (stated for the mounted component and a
\* source on the current output context).
StartNotBeforeClock ==
    \A m \in Msgs :
        (mounted /\ Scheduled(m) /\ sources[m].now >= 0) =>
            sources[m].at >= sources[m].now

\* C16: chunks are placed on the timeline in arrival order: of two chunks
\* scheduled with no reset of the cursor between them, the one whose
\* message arrived first has the start time that is not the later one
\* (stated for the mounted component).
ArrivalOrderKept ==
    \A a, b \in Msgs :
        (mounted /\ a < b /\ Scheduled(a) /\ Scheduled(b) /\ sources[a].prev = b) =>
            sources[a].at <= sources[b].at

\* C18: no source is started from a message whose decode was pending when
\* an interruption was handled (stated for the mounted component).
NoChunkStartedAcrossInterrupt ==
    \A m \in Msgs : (mounted /\ Scheduled(m)) => ~sources[m].stale

\* C19: an onclose or onerror of a session that has been torn down (its
\* stream was stopped) releases nothing of a start request made later and,
\* when there is such a request, leaves isConnecting and isActive as they
\* are (stated for the mounted component).
StaleCallbackActsOnOwnSession ==
    [][\A s \in Sessions :
          (/\ mounted
           /\ stream[s].state = "stopped"
           /\ onclose(s) \/ onerror(s)
           /\ \E r \in Sessions : r > s /\ request[r] # "unused") =>
             /\ UNCHANGED << isConnecting, isActive >>
             /\ \A r \in Sessions : r > s =>
                   /\ stream'[r] = stream[r]
                   /\ inputCtx'[r] = inputCtx[r]
                   /\ outputCtx'[r] = outputCtx[r]
                   /\ processor'[r] = processor[r]
                   /\ transport'[r] = transport[r]]_vars

\* C20: onopen is handled only while the session is Connecting and the
\* handles still hold the input context and the media stream of the start
\* request that registered it (stated for the mounted component).
OnopenOnlyWhileConnecting ==
    [][\A s \in Sessions :
          (mounted /\ onopen(s)) =>
             /\ isConnecting
             /\ inputAudioContextRef = s
             /\ mediaStreamRef = s]_vars

\* C21 (state part): isConnecting and isActive are never both true, so the
\* session is in exactly one of Idle, Connecting and Active.
NeverConnectingAndActive == ~(isConnecting /\ isActive)

\* C21: the session is always in exactly one of Idle, Connecting and
\* Active, and it becomes Active only by an onopen handled while it is
\* Connecting (stated for the mounted component).
ActiveOnlyFromConnecting ==
    /\ []NeverConnectingAndActive
    /\ [][(mounted /\ ~isActive /\ isActive') =>
             (isConnecting /\ \E s \in Sessions : onopen(s))]_vars

\* C22: the status becomes 'Listening...' only while the session is Active:
\* no 'ended' listener of a source replaces the status shown after a stop, a
\* close or an error once the session is Idle (stated for the mounted
\* component).
ListeningOnlyWhileActive ==
    [][(mounted /\ statusMessage # "Listening..."
               /\ statusMessage' = "Listening...") => isActive]_vars

====
